---------------------------- MODULE Spec2Model ----------------------------
(***************************************************************************)
(* Model of the two template generators of MIB2ZABBIXPY:                   *)
(*   mib2zabbix-py.py  (walk mode and MIB mode)                            *)
(*   mib2template.py   (MIB scan)                                          *)
(* Text is modelled as TLA+ strings; the Python string operations the code *)
(* uses (split, strip, upper, endswith, in, replace) are operators below.  *)
(***************************************************************************)
EXTENDS Naturals, Sequences, FiniteSets, TLC

(***************************************************************************)
(* Bounds of the model.                                                    *)
(***************************************************************************)
\* number of lines of snmpwalk output one run reads
MaxLines == 3
\* number of symbols snmptranslate -T l lists in one MIB scan
MaxSymbols == 2

(***************************************************************************)
(* Python string operations.                                               *)
(***************************************************************************)
None == "<None>"

Char(s, i) == SubSeq(s, i, i)

\* sub in s
Contains(sub, s) ==
  \E i \in 1..(Len(s) + 1) : i + Len(sub) - 1 <= Len(s) /\ SubSeq(s, i, i + Len(sub) - 1) = sub

RECURSIVE FindFrom(_, _, _)
\* the first position >= lo at which sub occurs in s (0 when there is none),
\* searched a window at a time
FindFrom(s, sub, lo) ==
  LET last == Len(s) - Len(sub) + 1
      hi == IF lo + 15 < last THEN lo + 15 ELSE last
      at == {i \in lo..hi : SubSeq(s, i, i + Len(sub) - 1) = sub}
  IN  IF at # {} THEN CHOOSE i \in at : \A j \in at : i <= j
      ELSE IF hi >= last THEN 0
      ELSE FindFrom(s, sub, hi + 1)

\* s.find(sub) + 1 (0 when absent)
Find(s, sub) == FindFrom(s, sub, 1)

RECURSIVE Split(_, _)
\* s.split(sep)
Split(s, sep) ==
  LET k == Find(s, sep)
  IN  IF k = 0 THEN <<s>>
      ELSE <<SubSeq(s, 1, k - 1)>> \o Split(SubSeq(s, k + Len(sep), Len(s)), sep)

\* s.split(sep, 1)
Split1(s, sep) ==
  LET k == Find(s, sep)
  IN  IF k = 0 THEN <<s>>
      ELSE <<SubSeq(s, 1, k - 1), SubSeq(s, k + Len(sep), Len(s))>>

RECURSIVE Join(_, _)
\* sep.join(parts)
Join(parts, sep) ==
  IF Len(parts) = 0 THEN ""
  ELSE IF Len(parts) = 1 THEN parts[1]
  ELSE parts[1] \o sep \o Join(Tail(parts), sep)

\* s.replace(old, new)
Replace(s, old, new) == Join(Split(s, old), new)

RECURSIVE LStrip(_)
LStrip(s) == IF Len(s) > 0 /\ Char(s, 1) = " " THEN LStrip(Tail(s)) ELSE s

RECURSIVE RStrip(_)
RStrip(s) ==
  IF Len(s) > 0 /\ Char(s, Len(s)) = " " THEN RStrip(SubSeq(s, 1, Len(s) - 1)) ELSE s

\* s.strip()
Strip(s) == RStrip(LStrip(s))

UpperChar(c) ==
  CASE c = "a" -> "A" [] c = "b" -> "B" [] c = "c" -> "C" [] c = "d" -> "D"
    [] c = "e" -> "E" [] c = "f" -> "F" [] c = "g" -> "G" [] c = "h" -> "H"
    [] c = "i" -> "I" [] c = "j" -> "J" [] c = "k" -> "K" [] c = "l" -> "L"
    [] c = "m" -> "M" [] c = "n" -> "N" [] c = "o" -> "O" [] c = "p" -> "P"
    [] c = "q" -> "Q" [] c = "r" -> "R" [] c = "s" -> "S" [] c = "t" -> "T"
    [] c = "u" -> "U" [] c = "v" -> "V" [] c = "w" -> "W" [] c = "x" -> "X"
    [] c = "y" -> "Y" [] c = "z" -> "Z" [] OTHER -> c

RECURSIVE Upper(_)
\* s.upper()
Upper(s) ==
  IF Len(s) = 0 THEN ""
  ELSE IF Len(s) = 1 THEN UpperChar(s)
  ELSE Upper(SubSeq(s, 1, Len(s) \div 2)) \o Upper(SubSeq(s, Len(s) \div 2 + 1, Len(s)))

\* s.endswith(suffix)
EndsWith(s, suffix) ==
  Len(s) >= Len(suffix) /\ SubSeq(s, Len(s) - Len(suffix) + 1, Len(s)) = suffix

StartsWith(s, prefix) ==
  Len(s) >= Len(prefix) /\ SubSeq(s, 1, Len(prefix)) = prefix

RECURSIVE RepStr(_, _)
RepStr(s, n) == IF n = 0 THEN "" ELSE s \o RepStr(s, n - 1)


(***************************************************************************)
(* mib2zabbix-py.py: the static type table and the type mapper.            *)
(***************************************************************************)
DATATYPES ==
  ("STRING" :> "CHAR") @@ ("OID" :> "CHAR") @@ ("TIMETICKS" :> "FLOAT") @@
  ("BITS" :> "TEXT") @@ ("COUNTER" :> "FLOAT") @@ ("COUNTER32" :> "FLOAT") @@
  ("COUNTER64" :> "FLOAT") @@ ("GAUGE" :> "FLOAT") @@ ("GAUGE32" :> "FLOAT") @@
  ("INTEGER" :> "FLOAT") @@ ("INTEGER32" :> "FLOAT") @@ ("IPADDR" :> "TEXT") @@
  ("IPADDRESS" :> "TEXT") @@ ("NETADDDR" :> "TEXT") @@ ("NOTIF" :> "LOG") @@
  ("TRAP" :> "LOG") @@ ("OBJECTID" :> "TEXT") @@ ("OCTETSTR" :> "TEXT") @@
  ("OPAQUE" :> "TEXT") @@ ("TICKS" :> "FLOAT") @@ ("UNSIGNED32" :> "FLOAT") @@
  ("WRONG TYPE (SHOULD BE GAUGE32 OR UNSIGNED32)" :> "TEXT") @@
  ("\"\"" :> "TEXT") @@ ("HEX-STRING" :> "TEXT")

\* DATATYPES.get(snmp_type.upper(), "TEXT")
DataTypeLookup(snmp_type) ==
  IF Upper(snmp_type) \in DOMAIN DATATYPES THEN DATATYPES[Upper(snmp_type)] ELSE "TEXT"

\* the value get_data_type returns
get_data_type(snmp_type) ==
  LET data_type == DataTypeLookup(snmp_type)
  IN  IF data_type # "" THEN data_type ELSE None

\* the lines get_data_type prints
get_data_type_prints(snmp_type) ==
  IF DataTypeLookup(snmp_type) = Upper(snmp_type)
    THEN <<"Unhandled data type [" \o snmp_type \o "] so assigning TEXT">>
    ELSE <<>>

(***************************************************************************)
(* The external resolver (snmptranslate) with the MIBs it has loaded: the  *)
(* object whose numeric OID is the longest prefix of the OID asked for     *)
(* names it, and the rest of the OID is kept as the instance suffix.       *)
(***************************************************************************)
Mib2 == ".iso.org.dod.internet.mgmt.mib-2"

MIBTree ==
  << [oid |-> ".1.3.6.1.2.1.1.4", name |-> "SNMPv2-MIB::sysContact",
      path |-> Mib2 \o ".system.sysContact", desc |-> "The contact person."],
     [oid |-> ".1.3.6.1.2.1.1.5", name |-> "SNMPv2-MIB::sysName",
      path |-> Mib2 \o ".system.sysName", desc |-> "An administratively-assigned name."],
     [oid |-> ".1.3.6.1.2.1.1.7", name |-> "SNMPv2-MIB::sysServices",
      path |-> Mib2 \o ".system.sysServices", desc |-> "The set of services."],
     [oid |-> ".1.3.6.1.2.1.2.2.1.2", name |-> "IF-MIB::ifDescr",
      path |-> Mib2 \o ".interfaces.ifTable.ifEntry.ifDescr", desc |-> "Interface description."],
     [oid |-> ".1.3.6.1.2.1.2.2.1.3", name |-> "IF-MIB::ifType",
      path |-> Mib2 \o ".interfaces.ifTable.ifEntry.ifType", desc |-> "The type of interface."],
     [oid |-> ".1.3.6.1.2.1.4.20.1.1", name |-> "IP-MIB::ipAdEntAddr",
      path |-> Mib2 \o ".ip.ipAddrTable.ipAddrEntry.ipAdEntAddr", desc |-> "The IP address."],
     [oid |-> ".1.3.6.1.4.1.9999.7", name |-> "VENDOR-MIB::linkStable",
      path |-> ".iso.org.dod.internet.private.enterprises.vendor.linkStable",
      desc |-> "Whether the link is stable."] >>

MIBMatches(oid) ==
  {k \in DOMAIN MIBTree : oid = MIBTree[k].oid \/ StartsWith(oid, MIBTree[k].oid \o ".")}

\* snmptranslate -Tz / -Td / -Of on a numeric OID
snmptranslate(oid) ==
  LET k == CHOOSE m \in MIBMatches(oid) :
             \A n \in MIBMatches(oid) : Len(MIBTree[n].oid) <= Len(MIBTree[m].oid)
      e == MIBTree[k]
      suffix == SubSeq(oid, Len(e.oid) + 1, Len(oid))
  IN  [full_name |-> e.name \o suffix, description |-> e.desc, formatted_oid |-> e.path \o suffix]

\* get_mib_info: (full_name, description, formatted_oid); the fallback on a
\* failed resolver call is the stripped OID itself with an empty description
\* the failure of the resolver is not noticed
get_mib_info_Always(oid, outcome) ==
  IF MIBMatches(Strip(oid)) # {}
    THEN LET r == snmptranslate(Strip(oid))
         IN  <<r.full_name, r.description, r.formatted_oid>>
    ELSE <<Strip(oid), "", Strip(oid)>>

get_mib_info(oid, outcome) ==
  IF outcome = "ok" /\ MIBMatches(Strip(oid)) # {}
    THEN LET r == snmptranslate(Strip(oid))
         IN  <<r.full_name, r.description, r.formatted_oid>>
    ELSE <<Strip(oid), "", Strip(oid)>>

(***************************************************************************)
(* The lines an snmpwalk can print, per walked device.                     *)
(***************************************************************************)
\* a long instance suffix (a row indexed by a long string)
LongIndex == RepStr(".4294967295", 22)

Devices == {"router", "odd", "long", "flaky"}

DeviceLines(d) ==
  CASE d = "router" ->
         { ".1.3.6.1.2.1.1.5.0 = STRING: \"router1\"",
           ".1.3.6.1.2.1.2.2.1.2.1 = STRING: \"eth0\"",
           ".1.3.6.1.2.1.2.2.1.2.2 = STRING: \"eth1\"",
           ".1.3.6.1.2.1.2.2.1.3.1 = INTEGER: 6",
           ".1.3.6.1.2.1.4.20.1.1.10.0.0.1 = IpAddress: 10.0.0.1" }
    [] d = "odd" ->
         { ".1.3.6.1.2.1.1.4.0 = \"\"",
           ".1.3.6.1.2.1.1.4.0 = noc: floor 2",
           ".1.3.6.1.2.1.1.7.0 = Network Address: C0:00:02:01",
           ".1.3.6.1.2.1.2.2.1.2.1 = STRING: \"eth0\"",
           ".1.3.6.1.4.1.9999.7.0 = INTEGER: 1",
           "Timeout: No Response from 192.0.2.1",
           ".1.3.6.1.2.1.1.9 = No more variables left in this MIB View",
           "" }
    [] d = "long" ->
         { ".1.3.6.1.2.1.2.2.1.2.1 = STRING: \"eth0\"",
           ".1.3.6.1.2.1.2.2.1.2" \o LongIndex \o " = STRING: \"eth1\"",
           ".1.3.6.1.2.1.2.2.1.3" \o LongIndex \o " = INTEGER: 6" }
    [] d = "flaky" ->
         { ".1.3.6.1.2.1.2.2.1.2.1 = STRING: \"eth0\"",
           ".1.3.6.1.2.1.2.2.1.3.1 = INTEGER: 6" }

\* the lines the agent printed as OID = VALUE, without a type
UntypedLines ==
  { ".1.3.6.1.2.1.1.4.0 = \"\"",
    ".1.3.6.1.2.1.1.4.0 = noc: floor 2" }

\* what a resolver call can answer during the walk of a device: the walk of
\* the "flaky" device is the one run where snmptranslate calls may fail
ResolverOutcomes(d) == IF d = "flaky" THEN {"ok", "fail"} ELSE {"ok"}

(***************************************************************************)
(* State.                                                                  *)
(***************************************************************************)
VARIABLES
  tool,             \* which program runs: "mib2zabbix-py" or "mib2template"
  device,           \* the device the walk is run against
  args,             \* the parsed command line (self.args)
  pc,               \* position of the run: "start", "walk", "scan", "done", "exit1"
  oids,             \* the lines of the walk output the loop has read so far
  calls,            \* per line read, the resolver call made for it: "none", "ok", "fail"
  kept,             \* per line read, whether it was appended as a prototype (history)
  items,            \* processor.items / self.items
  discovery_rules,  \* processor.discovery_rules / self.discovery_rules, in insertion order
  last_part_10,     \* processor.last_part_10
  template_name,    \* the local template_name of process_walk_mode
  stdout,           \* the progress and diagnostic lines printed
  output,           \* the documents written, with their destination: none or one
  symbols,          \* mib2template: the symbols of the module the loop has read so far
  tables,           \* mib2template: the local dict tables of process_mib_symbols
  scalars           \* mib2template: the local list scalars of process_mib_symbols

vars == <<tool, device, args, pc, oids, calls, kept, items, discovery_rules, last_part_10,
          template_name, stdout, output, symbols, tables, scalars>>

walkVars == <<oids, kept, last_part_10, template_name>>

scanVars == <<symbols, tables, scalars>>

\* discovery_rules is a dict: a sequence of [name, protos] in insertion order
RuleNames(rules) == {rules[k].name : k \in DOMAIN rules}

RuleIndex(rules, name) == CHOOSE k \in DOMAIN rules : rules[k].name = name

RuleProtos(rules, name) == rules[RuleIndex(rules, name)].protos

RECURSIVE ProtoCount(_)
\* the number of prototypes of all rules
ProtoCount(rules) ==
  IF Len(rules) = 0 THEN 0 ELSE Len(Head(rules).protos) + ProtoCount(Tail(rules))

(***************************************************************************)
(* process_walk_mode: one iteration of the loop over the walk's lines.     *)
(***************************************************************************)
\* lines 241-246: the line is skipped before anything is resolved
\* the sentinel is not looked for
SkippedLineNoSentinel(oid_line) ==
  \/ oid_line = ""
  \/ Len(Split1(oid_line, "=")) < 2

SkippedLine(oid_line) ==
  \/ oid_line = ""
  \/ Contains("NO MORE VARIABLES LEFT", Upper(oid_line))
  \/ Len(Split1(oid_line, "=")) < 2

\* without a colon the text itself is taken for the type
ParseLineNoDefault(oid_line) ==
  LET parts == Split1(oid_line, "=")
      value_part == Strip(parts[2])
  IN  IF Contains(":", value_part)
        THEN [oid |-> Strip(parts[1]),
              snmp_type |-> Strip(Split1(value_part, ":")[1]),
              value |-> Strip(Split1(value_part, ":")[2])]
        ELSE [oid |-> Strip(parts[1]), snmp_type |-> value_part, value |-> value_part]

\* lines 248-258: (oid, snmp_type, value) of a line that is not skipped
ParseLine(oid_line) ==
  LET parts == Split1(oid_line, "=")
      value_part == Strip(parts[2])
  IN  IF Contains(":", value_part)
        THEN [oid |-> Strip(parts[1]),
              snmp_type |-> Strip(Split1(value_part, ":")[1]),
              value |-> Strip(Split1(value_part, ":")[2])]
        ELSE [oid |-> Strip(parts[1]), snmp_type |-> "STRING", value |-> value_part]

\* line 265: the table test on the formatted OID
IsTableOid(oid_parts) ==
  Len(oid_parts) >= 9 /\ EndsWith(Upper(oid_parts[9]), "TABLE")

\* line 267
TableName(mib_name, oid_parts) == Split(mib_name, "::")[1] \o "::" \o oid_parts[9]

\* the dedup key is not consulted
DedupPassesNoKey(oid_parts, last) == Len(oid_parts) > 10

\* line 273: the column is appended
DedupPasses(oid_parts, last) == Len(oid_parts) > 10 /\ last # oid_parts[11]

\* lines 275-285
ItemProto(p, mib, oid_parts) ==
  LET oid_split == Split(p.oid, ".")
  IN  << IF Len(oid_parts) > 10 THEN oid_parts[11] ELSE "column",
         mib[1],
         Replace(mib[1], "::", "."),
         Join(SubSeq(oid_split, 1, Len(oid_split) - 1), "."),
         get_data_type(p.snmp_type),
         mib[2] >>

\* lines 291-299
SimpleItem(p, mib) ==
  LET mib_name == mib[1]
      name0 == IF Contains("::", mib_name) THEN Split(mib_name, "::")[2] ELSE mib_name
      name == Split(name0, ".")[1]
      key == IF Contains("::", mib_name) THEN Replace(mib_name, "::", ".") ELSE p.oid
  IN  <<name, mib_name, key, p.oid, get_data_type(p.snmp_type), mib[2]>>

\* lines 263-288: a table column
ProcessTable(st, p, mib, oid_parts) ==
  LET table_name == TableName(mib[1], oid_parts)
      fresh == table_name \notin RuleNames(st.discovery_rules)
      rules1 == IF fresh
                  THEN Append(st.discovery_rules, [name |-> table_name, protos |-> <<>>])
                  ELSE st.discovery_rules
      last1 == IF fresh THEN "" ELSE st.last_part_10
      k == RuleIndex(rules1, table_name)
  IN  IF DedupPasses(oid_parts, last1)
        THEN [st EXCEPT
               !.discovery_rules =
                  [rules1 EXCEPT ![k].protos = Append(@, ItemProto(p, mib, oid_parts))],
               !.last_part_10 = oid_parts[11],
               !.stdout = @ \o get_data_type_prints(p.snmp_type)
                            \o <<"ITEM_PROTOTYPE -> " \o table_name>>]
        ELSE [st EXCEPT !.discovery_rules = rules1, !.last_part_10 = last1]

\* lines 289-301: a standalone item
ProcessItem(st, p, mib) ==
  LET item == SimpleItem(p, mib)
  IN  [st EXCEPT
        !.template_name = IF p.oid = ".1.3.6.1.2.1.1.5.0" THEN p.value ELSE @,
        !.items = Append(@, item),
        !.stdout = @ \o get_data_type_prints(p.snmp_type)
                     \o <<"ITEM -> " \o mib[1] \o " -> " \o item[1]>>]

\* lines 240-301: the body of the loop for one line; outcome is what the
\* resolver call answers ("ok") or that it failed ("fail")
ProcessLine(st, oid_line, outcome) ==
  IF SkippedLine(oid_line) THEN st
  ELSE LET p == ParseLine(oid_line)
           mib == get_mib_info(p.oid, outcome)
           oid_parts == Split(mib[3], ".")
       IN  IF IsTableOid(oid_parts)
             THEN ProcessTable(st, p, mib, oid_parts)
             ELSE ProcessItem(st, p, mib)

Aggregator ==
  [items |-> items, discovery_rules |-> discovery_rules, last_part_10 |-> last_part_10,
   template_name |-> template_name, stdout |-> stdout]

(***************************************************************************)
(* mib2zabbix-py.py generate_template: the document tree that is rendered. *)
(* The uuid elements are random and are not part of the model.             *)
(***************************************************************************)
SNMPINDEX == "{#SNMPINDEX}"

\* lines 350-363
RenderItem(a, item) ==
  [name |-> item[1], type |-> "SNMP_AGENT", snmp_oid |-> item[4], key |-> item[3],
   value_type |-> IF item[5] # None /\ item[5] # "" THEN item[5] ELSE None,
   description |-> item[6],
   history |-> a.history \o "d",
   trends |-> a.trends,
   status |-> IF a.enable_items THEN "ENABLED" ELSE "DISABLED",
   delay |-> a.check_delay]

\* lines 383-393
RenderProto(a, proto) ==
  [name |-> proto[1] \o "." \o SNMPINDEX, type |-> "SNMP_AGENT",
   snmp_oid |-> proto[4] \o "." \o SNMPINDEX,
   key |-> proto[4] \o "[" \o SNMPINDEX \o "]",
   value_type |-> IF proto[5] # None /\ proto[5] # "" THEN proto[5] ELSE None,
   delay |-> a.check_delay,
   history |-> a.history \o "d",
   description |-> proto[6]]

\* line 396
OidAppend(proto) == "{#" \o Upper(proto[1]) \o "}," \o proto[4] \o ","

\* only what was accumulated before is measured
FitsBudgetBefore(snmp_oids, oid_append) == Len(snmp_oids) < 501

\* line 397: the triple still fits the budget
FitsBudget(snmp_oids, oid_append) == Len(snmp_oids \o oid_append) < 501

RECURSIVE SnmpOidsPrefix(_, _)
\* the accumulation stops at the first triple that does not fit
SnmpOidsPrefix(protos, snmp_oids) ==
  IF Len(protos) = 0 THEN snmp_oids
  ELSE IF FitsBudget(snmp_oids, OidAppend(Head(protos)))
    THEN SnmpOidsPrefix(Tail(protos), snmp_oids \o OidAppend(Head(protos)))
    ELSE snmp_oids

RECURSIVE SnmpOids(_, _)
\* lines 380-398: the string accumulated over the rule's prototypes
SnmpOids(protos, snmp_oids) ==
  IF Len(protos) = 0 THEN snmp_oids
  ELSE SnmpOids(Tail(protos),
                IF FitsBudget(snmp_oids, OidAppend(Head(protos)))
                  THEN snmp_oids \o OidAppend(Head(protos))
                  ELSE snmp_oids)

\* lines 401-402: the rule's snmp_oid element, absent when nothing accumulated
DiscoveryOid(protos) ==
  LET snmp_oids == SnmpOids(protos, "")
  IN  IF Len(protos) > 0 /\ snmp_oids # ""
        THEN "discovery[" \o SubSeq(snmp_oids, 1, Len(snmp_oids) - 1) \o "]"
        ELSE None

\* only the first prototype of the rule is rendered
RenderRuleFirstOnly(a, rule) ==
  [name |-> IF Contains("::", rule.name) THEN Split(rule.name, "::")[2] ELSE rule.name,
   delay |-> a.disc_delay,
   key |-> Replace(rule.name, "::", "."),
   status |-> "DISABLED",
   type |-> "SNMP_AGENT",
   item_prototypes |-> [k \in DOMAIN rule.protos \cap {1} |-> RenderProto(a, rule.protos[k])],
   snmp_oid |-> DiscoveryOid(rule.protos)]

\* lines 368-402
RenderRule(a, rule) ==
  [name |-> IF Contains("::", rule.name) THEN Split(rule.name, "::")[2] ELSE rule.name,
   delay |-> a.disc_delay,
   key |-> Replace(rule.name, "::", "."),
   status |-> "DISABLED",
   type |-> "SNMP_AGENT",
   item_prototypes |-> [k \in DOMAIN rule.protos |-> RenderProto(a, rule.protos[k])],
   snmp_oid |-> DiscoveryOid(rule.protos)]

\* lines 331-402
generate_template(a, name, its, rules) ==
  [version |-> "6.0",
   templates |->
     << [template |-> name \o " SNMP",
         name |-> name \o " SNMP",
         description |-> "Template generated by mib2zabbix-py",
         groups |-> << [name |-> a.group] >>,
         items |-> [k \in DOMAIN its |-> RenderItem(a, its[k])],
         discovery_rules |-> [k \in DOMAIN rules |-> RenderRule(a, rules[k])]] >>]

\* lines 411-421: where the document goes
Emit(a, doc) == << [dest |-> a.filename, doc |-> doc] >>

(***************************************************************************)
(* The command lines of the runs.                                          *)
(***************************************************************************)
WalkArgs ==
  { [mode |-> "walk", name |-> None, group |-> "Templates", enable_items |-> FALSE,
     history |-> "7", trends |-> "365", check_delay |-> "60", disc_delay |-> "3600",
     filename |-> "stdout"],
    [mode |-> "walk", name |-> "Core", group |-> "Network", enable_items |-> TRUE,
     history |-> "30", trends |-> "90", check_delay |-> "30", disc_delay |-> "600",
     filename |-> "out.xml"] }

MibArgs == {[a EXCEPT !.mode = "mib"] : a \in WalkArgs}

DefaultArgs == CHOOSE a \in WalkArgs : a.name = None

\* the runs: every device walked with the default command line, one of them
\* also with every option given, and the MIB mode (which contacts no device)
Runs ==
  {[args |-> DefaultArgs, device |-> d] : d \in Devices}
    \cup {[args |-> a, device |-> "long"] : a \in WalkArgs}
    \cup {[args |-> a, device |-> None] : a \in MibArgs}

(***************************************************************************)
(* Actions of mib2zabbix-py.py.                                            *)
(***************************************************************************)
\* run, lines 423-430, walk mode: snmpwalk ran and printed its output
WalkStart ==
  /\ tool = "mib2zabbix-py" /\ pc = "start" /\ args.mode = "walk"
  /\ pc' = "walk"
  /\ template_name' = "SNMP Template"
  /\ UNCHANGED <<tool, device, args, oids, calls, kept, items, discovery_rules, last_part_10,
                 stdout, output, scanVars>>

\* the failed run renders what it has all the same
WalkFailEmits ==
  /\ tool = "mib2zabbix-py" /\ pc = "start" /\ args.mode = "walk"
  /\ pc' = "exit1"
  /\ \E msg \in {"Error ejecutando snmpwalk", "Error: Comando 'snmpwalk' no encontrado"} :
       stdout' = Append(stdout, msg)
  /\ output' = Emit(args, generate_template(args, "SNMP Template", items, discovery_rules))
  /\ UNCHANGED <<tool, device, args, oids, calls, kept, items, discovery_rules, last_part_10,
                 template_name, scanVars>>

\* lines 305-310: snmpwalk failed or is not installed
WalkFail ==
  /\ tool = "mib2zabbix-py" /\ pc = "start" /\ args.mode = "walk"
  /\ pc' = "exit1"
  /\ \E msg \in {"Error ejecutando snmpwalk", "Error: Comando 'snmpwalk' no encontrado"} :
       stdout' = Append(stdout, msg)
  /\ UNCHANGED <<tool, device, args, oids, calls, kept, items, discovery_rules, last_part_10,
                 template_name, output, scanVars>>

\* lines 240-301: the loop reads the next line of result.strip().split('\n');
\* an empty first line means the whole output was empty
WalkLine ==
  /\ tool = "mib2zabbix-py" /\ pc = "walk"
  /\ Len(oids) < MaxLines
  /\ ~(Len(oids) >= 1 /\ oids[1] = "")
  /\ \E oid_line \in DeviceLines(device) :
       \E outcome \in IF SkippedLine(oid_line) THEN {"none"} ELSE ResolverOutcomes(device) :
         LET st == ProcessLine(Aggregator, oid_line, outcome)
         IN  /\ oids' = Append(oids, oid_line)
             /\ calls' = Append(calls, outcome)
             /\ kept' = Append(kept, ProtoCount(st.discovery_rules)
                                       > ProtoCount(discovery_rules))
             /\ items' = st.items
             /\ discovery_rules' = st.discovery_rules
             /\ last_part_10' = st.last_part_10
             /\ template_name' = st.template_name
             /\ stdout' = st.stdout
  /\ UNCHANGED <<tool, device, args, pc, output, scanVars>>

\* lines 82-98 and 308-310: the resolver call for the next line finds no
\* snmptranslate; get_mib_info catches only CalledProcessError, so the
\* FileNotFoundError reaches the handler of process_walk_mode and the run exits
WalkResolverMissing ==
  /\ tool = "mib2zabbix-py" /\ pc = "walk"
  /\ Len(oids) < MaxLines
  /\ ~(Len(oids) >= 1 /\ oids[1] = "")
  /\ \E oid_line \in DeviceLines(device) : ~SkippedLine(oid_line)
  /\ pc' = "exit1"
  /\ stdout' = Append(stdout, "Error: Comando 'snmpwalk' no encontrado")
  /\ UNCHANGED <<tool, device, args, oids, calls, kept, items, discovery_rules, last_part_10,
                 template_name, output, scanVars>>

\* line 303: the lines are exhausted (the stripped output never ends in an
\* empty line, and holds at least one line)
WalkGenerate ==
  /\ tool = "mib2zabbix-py" /\ pc = "walk"
  /\ Len(oids) >= 1
  /\ (oids[Len(oids)] # "" \/ Len(oids) = 1)
  /\ output' = Emit(args, generate_template(args, template_name, items, discovery_rules))
  /\ pc' = "done"
  /\ UNCHANGED <<tool, device, args, oids, calls, kept, items, discovery_rules, last_part_10,
                 template_name, stdout, scanVars>>

\* lines 314-320: the two items of the basic template
BasicItems ==
  << <<"sysDescr", "SNMPv2-MIB::sysDescr.0", "SNMPv2-MIB.sysDescr.0",
       ".1.3.6.1.2.1.1.1.0", "CHAR", "System description">>,
     <<"sysUpTime", "SNMPv2-MIB::sysUpTime.0", "SNMPv2-MIB.sysUpTime.0",
       ".1.3.6.1.2.1.1.3.0", "FLOAT", "System uptime">> >>

\* process_mib_mode and generate_basic_template, lines 219-224 and 312-321
MibMode ==
  /\ tool = "mib2zabbix-py" /\ pc = "start" /\ args.mode = "mib"
  /\ items' = BasicItems
  /\ template_name' = IF args.name # None /\ args.name # "" THEN args.name
                      ELSE "Generated SNMP Template"
  /\ output' = Emit(args, generate_template(args, template_name', items', discovery_rules))
  /\ pc' = "done"
  /\ UNCHANGED <<tool, device, args, oids, calls, kept, discovery_rules, last_part_10,
                 stdout, scanVars>>

(***************************************************************************)
(* mib2template.py: the type mapper and the table classifier.              *)
(***************************************************************************)
\* type_mapping, lines 164-177, in the order the dict is iterated
type_mapping ==
  << <<"INTEGER", "FLOAT">>, <<"Integer32", "FLOAT">>, <<"Unsigned32", "FLOAT">>,
     <<"Counter32", "FLOAT">>, <<"Counter64", "FLOAT">>, <<"Gauge32", "FLOAT">>,
     <<"TimeTicks", "FLOAT">>, <<"OCTET STRING", "CHAR">>,
     <<"OBJECT IDENTIFIER", "CHAR">>, <<"IpAddress", "TEXT">>, <<"BITS", "TEXT">>,
     <<"Opaque", "TEXT">> >>

\* lines 179-189
get_zabbix_type(syntax) ==
  LET hits == {k \in DOMAIN type_mapping : Contains(type_mapping[k][1], syntax)}
  IN  IF hits # {}
        THEN type_mapping[CHOOSE k \in hits : \A j \in hits : k <= j][2]
      ELSE IF Contains("INTEGER", syntax) THEN "FLOAT"
      ELSE IF Contains("STRING", syntax) THEN "CHAR"
      ELSE "TEXT"

\* the test on "Entry" is left out
is_table_symbol_NoEntry(symbol, syntax) ==
  \/ Contains(".1", symbol)
  \/ Contains("Table", symbol)
  \/ Contains("Table", syntax)

\* line 193
is_table_symbol(symbol, syntax) ==
  \/ Contains(".1", symbol)
  \/ Contains("Table", symbol)
  \/ Contains("Entry", symbol)
  \/ Contains("Table", syntax)

(***************************************************************************)
(* The external resolver on the symbols of the scanned module: the numeric *)
(* OID, the full name, the description and the syntax of each.             *)
(***************************************************************************)
SymTab ==
  << [symbol |-> "SNMPv2-MIB::sysDescr", oid |-> ".1.3.6.1.2.1.1.1",
      full_name |-> "SNMPv2-MIB::sysDescr", desc |-> "A textual description of the entity.",
      syntax |-> "DisplayString"],
     [symbol |-> "IF-MIB::ifTable", oid |-> ".1.3.6.1.2.1.2.2",
      full_name |-> "IF-MIB::ifTable", desc |-> "A list of interface entries.",
      syntax |-> "SEQUENCE OF IfEntry"],
     [symbol |-> "IF-MIB::ifEntry", oid |-> ".1.3.6.1.2.1.2.2.1",
      full_name |-> "IF-MIB::ifEntry", desc |-> "An entry containing management information.",
      syntax |-> "IfEntry"],
     [symbol |-> "IF-MIB::ifDescr.1", oid |-> ".1.3.6.1.2.1.2.2.1.2.1",
      full_name |-> "IF-MIB::ifDescr.1", desc |-> "Interface description.",
      syntax |-> "OCTET STRING (SIZE (0..255))"],
     [symbol |-> "IF-MIB::ifInOctets.10", oid |-> ".1.3.6.1.2.1.2.2.1.10.10",
      full_name |-> "IF-MIB::ifInOctets.10", desc |-> "The total number of octets received.",
      syntax |-> "Counter32"],
     [symbol |-> "IF-MIB::ifStackStatus", oid |-> ".1.3.6.1.2.1.31.1.2.1.3",
      full_name |-> "IF-MIB::ifStackStatus", desc |-> "The status of the relationship.",
      syntax |-> "IfTableRowStatus"] >>

\* the symbols snmptranslate -T l can list: those of SymTab and one bare label
ModuleSymbols == {SymTab[k].symbol : k \in DOMAIN SymTab} \cup {"sysName"}

SymEntry(symbol) == SymTab[CHOOSE k \in DOMAIN SymTab : SymTab[k].symbol = symbol]

\* process_symbol, lines 110-160: the symbol's record, or nothing (None) when
\* the first resolver call fails
process_symbol(symbol, outcome) ==
  IF outcome # "ok" \/ symbol \notin {SymTab[k].symbol : k \in DOMAIN SymTab} THEN <<>>
  ELSE LET e == SymEntry(symbol)
       IN  << [symbol |-> symbol, oid |-> e.oid, full_name |-> e.full_name,
            description |-> e.desc, syntax |-> e.syntax,
            zabbix_type |-> get_zabbix_type(e.syntax),
            is_table |-> is_table_symbol(symbol, e.syntax)] >>

(***************************************************************************)
(* mib2template.py process_mib_symbols and convert_to_template_format.     *)
(***************************************************************************)
\* line 214
ScanTableName(symbol) ==
  Split(symbol, "::")[1] \o "::" \o Split(Split(symbol, "::")[2], ".")[1]

\* lines 212-222: the object joins its table's list or the scalars
Classify(tb, sc, info) ==
  IF info.is_table
    THEN LET table_name == ScanTableName(info.symbol)
             tb1 == IF table_name \in RuleNames(tb) THEN tb
                    ELSE Append(tb, [name |-> table_name, protos |-> <<>>])
             k == RuleIndex(tb1, table_name)
         IN  [tables |-> [tb1 EXCEPT ![k].protos = Append(@, info)], scalars |-> sc]
    ELSE [tables |-> tb, scalars |-> Append(sc, info)]

\* lines 231-241
ScalarItem(scalar) ==
  LET fn == scalar.full_name
  IN  << IF Contains("::", fn) THEN Split(fn, "::")[2] ELSE fn,
         fn,
         IF Contains("::", fn) THEN Replace(fn, "::", ".") ELSE scalar.oid,
         scalar.oid, scalar.zabbix_type, scalar.description >>

\* lines 252-262
ColumnProto(column) ==
  LET fn == column.full_name
  IN  << IF Contains("::", fn) THEN Split(Split(fn, "::")[2], ".")[1] ELSE fn,
         fn,
         IF Contains("::", fn) THEN Replace(fn, "::", ".") ELSE column.oid,
         column.oid, column.zabbix_type, column.description >>

RECURSIVE ColumnProtosAll(_)
\* every member of the table becomes a prototype
ColumnProtosAll(columns) ==
  IF Len(columns) = 0 THEN <<>>
  ELSE <<ColumnProto(Head(columns))>> \o ColumnProtosAll(Tail(columns))

RECURSIVE ColumnProtos(_)
\* lines 249-263: only the columns whose symbol holds ".1" become prototypes
ColumnProtos(columns) ==
  IF Len(columns) = 0 THEN <<>>
  ELSE (IF Contains(".1", Head(columns).symbol) THEN <<ColumnProto(Head(columns))>> ELSE <<>>)
         \o ColumnProtos(Tail(columns))

\* lines 227-263 on the empty aggregator of a fresh run
convert_to_template_format(tb, sc) ==
  [items |-> [k \in DOMAIN sc |-> ScalarItem(sc[k])],
   discovery_rules |->
     [k \in DOMAIN tb |-> [name |-> tb[k].name, protos |-> ColumnProtos(tb[k].protos)]]]

(***************************************************************************)
(* mib2template.py generate_template.                                      *)
(***************************************************************************)
\* lines 288-301
ScanRenderItem(a, item) ==
  [name |-> item[1], type |-> "SNMP_AGENT", snmp_oid |-> item[4], key |-> item[3],
   value_type |-> IF item[5] # None /\ item[5] # "" THEN item[5] ELSE None,
   description |-> item[6],
   history |-> a.history \o "d",
   trends |-> a.trends \o "d",
   status |-> IF a.enable_items THEN "ENABLED" ELSE "DISABLED",
   delay |-> a.check_delay]

\* lines 317-330
ScanRenderProto(a, proto) ==
  [name |-> proto[1] \o "." \o SNMPINDEX, type |-> "SNMP_AGENT",
   snmp_oid |-> proto[4] \o "." \o SNMPINDEX,
   key |-> proto[4] \o "[" \o SNMPINDEX \o "]",
   value_type |-> IF proto[5] # None /\ proto[5] # "" THEN proto[5] ELSE None,
   delay |-> a.check_delay,
   history |-> a.history \o "d",
   trends |-> a.trends \o "d",
   description |-> proto[6],
   status |-> "DISABLED"]

\* lines 306-330
ScanRenderRule(a, rule) ==
  [name |-> IF Contains("::", rule.name) THEN Split(rule.name, "::")[2] ELSE rule.name,
   delay |-> a.disc_delay,
   key |-> Replace(rule.name, "::", "."),
   status |-> "DISABLED",
   type |-> "SNMP_AGENT",
   item_prototypes |-> [k \in DOMAIN rule.protos |-> ScanRenderProto(a, rule.protos[k])],
   snmp_oid |-> None]

\* lines 267-330
scan_generate_template(a, its, rules) ==
  LET name == IF a.template_name # None /\ a.template_name # "" THEN a.template_name
              ELSE a.module
  IN  [version |-> "6.0",
       templates |->
         << [template |-> name \o " SNMP",
             name |-> name \o " SNMP",
             description |-> "Template generated from MIB " \o a.module,
             groups |-> << [name |-> a.group] >>,
             items |-> [k \in DOMAIN its |-> ScanRenderItem(a, its[k])],
             discovery_rules |-> [k \in DOMAIN rules |-> ScanRenderRule(a, rules[k])]] >>]

\* lines 339-344
ScanEmit(a, doc) == << [dest |-> a.output, doc |-> doc] >>

ScanArgs ==
  { [mib_file |-> "IF-MIB.txt", module |-> "IF-MIB", output |-> "stdout",
     template_name |-> None, group |-> "Templates", enable_items |-> FALSE,
     history |-> "7", trends |-> "365", check_delay |-> "60", disc_delay |-> "3600"],
    [mib_file |-> "IF-MIB.txt", module |-> "IF-MIB", output |-> "out.xml",
     template_name |-> "Core", group |-> "Network", enable_items |-> TRUE,
     history |-> "30", trends |-> "90", check_delay |-> "30", disc_delay |-> "600"] }

(***************************************************************************)
(* Actions of mib2template.py.                                             *)
(***************************************************************************)
\* run, lines 350-351: load_mib answers False and the run exits
ScanLoadFail ==
  /\ tool = "mib2template" /\ pc = "start"
  /\ pc' = "exit1"
  /\ \E msg \in {"Error cargando MIB", "Error: snmptranslate no encontrado"} :
       stdout' = Append(stdout, msg)
  /\ UNCHANGED <<tool, device, args, calls, items, discovery_rules, output, walkVars, scanVars>>

\* run, lines 350-353: the module loads and process_mib_symbols starts
ScanStart ==
  /\ tool = "mib2template" /\ pc = "start"
  /\ pc' = "scan"
  /\ UNCHANGED <<tool, device, args, calls, items, discovery_rules, stdout, output,
                 walkVars, scanVars>>

\* lines 204-222: the loop reads the next symbol of the list
ScanSymbol ==
  /\ tool = "mib2template" /\ pc = "scan"
  /\ Len(symbols) < MaxSymbols
  /\ \E symbol \in ModuleSymbols :
       \E outcome \in IF Contains("::", symbol) THEN {"ok", "fail"} ELSE {"none"} :
         LET symbol_info == IF outcome = "none" THEN <<>>
                            ELSE process_symbol(symbol, outcome)
             info == symbol_info[1]
             next == IF symbol_info = <<>> THEN [tables |-> tables, scalars |-> scalars]
                     ELSE Classify(tables, scalars, info)
         IN  /\ symbols' = Append(symbols, symbol)
             /\ calls' = Append(calls, outcome)
             /\ tables' = next.tables
             /\ scalars' = next.scalars
             /\ stdout' = IF symbol_info = <<>> THEN stdout
                          ELSE Append(stdout, (IF info.is_table THEN "TABLA: " ELSE "ITEM: ")
                                                \o info.full_name)
  /\ UNCHANGED <<tool, device, args, pc, items, discovery_rules, output, walkVars>>

\* lines 225 and 354: the symbols are exhausted (get_mib_symbols may also have
\* answered none at all); the template is converted and rendered
ScanGenerate ==
  /\ tool = "mib2template" /\ pc = "scan"
  /\ LET conv == convert_to_template_format(tables, scalars)
     IN  /\ items' = conv.items
         /\ discovery_rules' = conv.discovery_rules
         /\ output' = ScanEmit(args, scan_generate_template(args, conv.items,
                                                            conv.discovery_rules))
  /\ pc' = "done"
  /\ UNCHANGED <<tool, device, args, calls, stdout, walkVars, scanVars>>

Init ==
  /\ \/ /\ tool = "mib2zabbix-py"
        /\ \E run \in Runs : args = run.args /\ device = run.device
     \/ /\ tool = "mib2template"
        /\ args \in ScanArgs
        /\ device = None
  /\ pc = "start"
  /\ oids = <<>>
  /\ calls = <<>>
  /\ kept = <<>>
  /\ items = <<>>
  /\ discovery_rules = <<>>
  /\ last_part_10 = ""
  /\ template_name = None
  /\ stdout = <<>>
  /\ output = <<>>
  /\ symbols = <<>>
  /\ tables = <<>>
  /\ scalars = <<>>

Next ==
  \/ WalkStart
  \/ WalkFail
  \/ WalkLine
  \/ WalkResolverMissing
  \/ WalkGenerate
  \/ MibMode
  \/ ScanLoadFail
  \/ ScanStart
  \/ ScanSymbol
  \/ ScanGenerate

Spec == Init /\ [][Next]_vars

(***************************************************************************)
(* What the properties below say of a walk line: whether it is skipped,    *)
(* a standalone item or a table column, its table and its row-index        *)
(* segment (the 11th dot-separated segment of the formatted OID).          *)
(***************************************************************************)
LineFacts(oid_line, outcome) ==
  IF SkippedLine(oid_line)
    THEN [kind |-> "skipped", table |-> None, index |-> None, segments |-> 0,
          mib_name |-> None, snmp_type |-> None, oid |-> None, value |-> None]
    ELSE LET p == ParseLine(oid_line)
             mib == get_mib_info(p.oid, outcome)
             parts == Split(mib[3], ".")
             is_table == Len(parts) >= 9 /\ EndsWith(Upper(parts[9]), "TABLE")
         IN  [kind |-> IF is_table THEN "table" ELSE "item",
              table |-> IF is_table THEN Split(mib[1], "::")[1] \o "::" \o parts[9] ELSE None,
              index |-> IF Len(parts) >= 11 THEN parts[11] ELSE None,
              segments |-> Len(parts),
              mib_name |-> mib[1], snmp_type |-> p.snmp_type, oid |-> p.oid,
              value |-> p.value]

\* the facts of the k-th line read
Line(k) == LineFacts(oids[k], calls[k])

\* the step reads one more walk line
ReadsLine == pc = "walk" /\ pc' = "walk" /\ Len(oids') = Len(oids) + 1

\* the facts of the line the step reads
NewLine == LineFacts(oids'[Len(oids')], calls'[Len(calls')])

\* a rule's prototypes, none when the rule does not exist
ProtosOf(rules, name) == IF name \in RuleNames(rules) THEN RuleProtos(rules, name) ELSE <<>>

(***************************************************************************)
(* C1. Walk-mode dedup invariant: after any sequence of walk lines no      *)
(* discovery rule holds two item prototypes with the same row-index        *)
(* segment.  The code keeps a prototype whenever its segment differs from  *)
(* the one kept just before, so a segment that comes back later is kept    *)
(* again: the statement is violated.                                       *)
(***************************************************************************)
C1_NoDuplicateRowIndex ==
  tool = "mib2zabbix-py" =>
    \A r \in DOMAIN discovery_rules :
      \A i, j \in DOMAIN discovery_rules[r].protos :
        i # j => discovery_rules[r].protos[i][1] # discovery_rules[r].protos[j][1]

(***************************************************************************)
(* C2. Walk-mode adjacency dedup is per table: a column is appended to a   *)
(* table's prototype list only if its row-index segment differs from that  *)
(* of the column most recently appended to that same table.  The code      *)
(* keeps one dedup key for all tables, so lines of another table in        *)
(* between let the same segment be appended twice in a row: violated.      *)
(***************************************************************************)
C2_AdjacencyDedupPerTable ==
  [][ReadsLine =>
        \A r \in DOMAIN discovery_rules' :
          LET name == discovery_rules'[r].name
              before == ProtosOf(discovery_rules, name)
              after == discovery_rules'[r].protos
          IN  Len(after) > Len(before) =>
                \/ before = <<>>
                \/ before[Len(before)][1] # after[Len(after)][1]]_vars

\* lines k and k+1 are columns of the same table with the same row-index segment
SameRowPair(k) ==
  /\ Line(k).kind = "table" /\ Line(k + 1).kind = "table"
  /\ Line(k).table = Line(k + 1).table
  /\ Line(k).index # None /\ Line(k).index = Line(k + 1).index

(***************************************************************************)
(* C3 as stated: of two consecutive walk lines of the same table with an   *)
(* identical row-index segment exactly the first is retained as a          *)
(* prototype and the second is dropped.  Violated: in a run of three such  *)
(* lines the second line is the first of the pair it forms with the third, *)
(* and it was dropped.                                                     *)
(***************************************************************************)
C3_ExactlyFirstRetained ==
  tool = "mib2zabbix-py" =>
    \A k \in 1..(Len(oids) - 1) : SameRowPair(k) => kept[k] /\ ~kept[k + 1]

(***************************************************************************)
(* C3 amended: of two consecutive walk lines of the same table with an     *)
(* identical row-index segment the second is never retained; the first is  *)
(* retained when it is the first line of the walk (and its segment is not  *)
(* empty), but not when it is itself the second of such a pair.            *)
(***************************************************************************)
C3_SecondDropped ==
  tool = "mib2zabbix-py" =>
    \A k \in 1..(Len(oids) - 1) :
      SameRowPair(k) =>
        /\ ~kept[k + 1]
        /\ (k = 1 /\ Line(k).index # "") => kept[k]

\* a pair of such lines was read, the first kept
C3_Witness ==
  /\ tool = "mib2zabbix-py" /\ Len(oids) >= 2
  /\ SameRowPair(1) /\ kept[1] /\ ~kept[2]
  /\ oids[1] # oids[2]

(***************************************************************************)
(* C4. In walk mode a well-formed line is a table column exactly when its  *)
(* formatted OID has at least 9 segments and the 9th ends, whatever the    *)
(* case, with "TABLE"; such a line produces a discovery rule named by the  *)
(* 9th segment with a prototype column for the object and adds no          *)
(* standalone item; any other well-formed line adds exactly one standalone *)
(* item and creates no rule.  Violated: a column whose formatted OID has   *)
(* fewer than 11 segments creates the rule and no prototype.               *)
(***************************************************************************)
C4_TableColumnOrItem ==
  [][(ReadsLine /\ NewLine.kind # "skipped") =>
        LET f == NewLine
        IN  IF f.kind = "table"
              THEN /\ \E r \in DOMAIN discovery_rules' :
                        /\ discovery_rules'[r].name = f.table
                        /\ RenderRule(args, discovery_rules'[r]).name
                             = Split(get_mib_info(f.oid, calls'[Len(calls')])[3], ".")[9]
                        /\ discovery_rules'[r].protos # <<>>
                        /\ f.index # None =>
                             \E i \in DOMAIN discovery_rules'[r].protos :
                               discovery_rules'[r].protos[i][1] = f.index
                   /\ items' = items
              ELSE /\ Len(items') = Len(items) + 1
                   /\ SubSeq(items', 1, Len(items)) = items
                   /\ RuleNames(discovery_rules') = RuleNames(discovery_rules)]_vars

\* the step reads one more symbol of the scanned module and resolves it
ReadsSymbol ==
  /\ pc = "scan" /\ pc' = "scan" /\ Len(symbols') = Len(symbols) + 1
  /\ calls'[Len(calls')] = "ok"

\* the record of the symbol the step reads
NewInfo == process_symbol(symbols'[Len(symbols')], "ok")[1]

\* the item or prototype the step appends in walk mode, none when it appends none
NewObject ==
  IF Len(items') > Len(items) THEN <<items'[Len(items')]>>
  ELSE IF kept'[Len(kept')]
    THEN LET protos == RuleProtos(discovery_rules', NewLine.table)
         IN  <<protos[Len(protos)]>>
  ELSE <<>>

\* the documented categories of the type labels
NumericLabels ==
  {"COUNTER", "COUNTER32", "COUNTER64", "GAUGE", "GAUGE32", "INTEGER", "INTEGER32",
   "UNSIGNED32", "TIMETICKS", "TICKS"}

ShortTextLabels ==
  {"STRING", "OCTETSTR", "OCTET STRING", "OID", "OBJECTID", "OBJECT IDENTIFIER"}

LogLabels == {"TRAP", "NOTIF", "NOTIFICATION"}

DocumentedType(label) ==
  IF Upper(label) \in NumericLabels THEN "FLOAT"
  ELSE IF Upper(label) \in ShortTextLabels THEN "CHAR"
  ELSE IF Upper(label) \in LogLabels THEN "LOG"
  ELSE "TEXT"

(***************************************************************************)
(* C5. The Type Mapper decides by case-insensitive exact match of the      *)
(* whole type label against a static table: counter, gauge, integer and    *)
(* timeticks labels give FLOAT, octet-string and object-identifier labels  *)
(* give CHAR, IP-address, opaque and bit-string labels give TEXT, trap and *)
(* notification labels give LOG, every other label gives TEXT; the result  *)
(* is always one of the four.  Violated: mib2template matches substrings   *)
(* of the syntax, case-sensitively, and the table of mib2zabbix-py maps    *)
(* OCTETSTR and OBJECTID to TEXT.                                          *)
(***************************************************************************)
C5_TypeMapperExactMatch ==
  [][/\ (ReadsLine /\ NewObject # <<>>) =>
          /\ NewObject[1][5] = DocumentedType(NewLine.snmp_type)
          /\ NewObject[1][5] \in {"FLOAT", "CHAR", "TEXT", "LOG"}
     /\ ReadsSymbol =>
          /\ NewInfo.zabbix_type = DocumentedType(NewInfo.syntax)
          /\ NewInfo.zabbix_type \in {"FLOAT", "CHAR", "TEXT", "LOG"}]_vars

\* the diagnostic lines among those printed
RECURSIVE Diagnostics(_)
Diagnostics(out) ==
  IF Len(out) = 0 THEN <<>>
  ELSE (IF StartsWith(Head(out), "Unhandled data type") THEN <<Head(out)>> ELSE <<>>)
         \o Diagnostics(Tail(out))

(***************************************************************************)
(* C6. For every type label that is not in the static mapping the Type     *)
(* Mapper returns TEXT and emits exactly one diagnostic line; for every    *)
(* label in the mapping it emits none.  Violated: the diagnostic is        *)
(* printed only when the label itself reads "TEXT", so an unmapped label   *)
(* such as "Network Address" gets TEXT and no diagnostic.                  *)
(***************************************************************************)
C6_UnknownTypeOneDiagnostic ==
  [][(ReadsLine /\ NewObject # <<>>) =>
        LET printed == Len(Diagnostics(stdout')) - Len(Diagnostics(stdout))
        IN  IF Upper(NewLine.snmp_type) \in DOMAIN DATATYPES
              THEN printed = 0
              ELSE printed = 1 /\ NewObject[1][5] = "TEXT"]_vars

\* the symbol has a path segment that is exactly "1"
HasSegmentOne(symbol) ==
  LET parts == Split(symbol, ".")
  IN  \E k \in 2..Len(parts) : parts[k] = "1"

\* somewhere in the text the characters of word follow each other
HasWord(text, word) ==
  \E i \in 1..Len(text) :
    \A k \in 1..Len(word) : i + k - 1 <= Len(text) /\ Char(text, i + k - 1) = Char(word, k)

\* every record the scan has classified so far
Classified ==
  {scalars[k] : k \in DOMAIN scalars}
    \cup UNION {{tables[t].protos[k] : k \in DOMAIN tables[t].protos} : t \in DOMAIN tables}

InTables(info) ==
  \E t \in DOMAIN tables : \E k \in DOMAIN tables[t].protos : tables[t].protos[k] = info

(***************************************************************************)
(* C7 as stated: the classifier answers table-member exactly when the      *)
(* symbol has a ".1" path segment, or holds "Table" or "Entry", or the     *)
(* syntax holds "Table".  Violated: the test is for the substring ".1", so *)
(* a symbol ending in ".10" is a table member with no segment "1".         *)
(***************************************************************************)
C7_TableIffSegmentOne ==
  tool = "mib2template" =>
    \A info \in Classified :
      info.is_table <=>
        \/ HasSegmentOne(info.symbol)
        \/ HasWord(info.symbol, "Table")
        \/ HasWord(info.symbol, "Entry")
        \/ HasWord(info.syntax, "Table")

(***************************************************************************)
(* C7 amended: the classifier answers table-member exactly when the symbol *)
(* holds the two characters ".1" anywhere (so also in ".10"), or holds     *)
(* "Table" or "Entry", or the syntax holds "Table"; ifTable and every      *)
(* symbol with a ".1" segment are table members, sysDescr with a syntax    *)
(* without "Table" is not; table members go to the tables, the others to   *)
(* the scalars.                                                            *)
(***************************************************************************)
C7_TableIffSubstring ==
  tool = "mib2template" =>
    \A info \in Classified :
      /\ info.is_table <=>
           \/ HasWord(info.symbol, ".1")
           \/ HasWord(info.symbol, "Table")
           \/ HasWord(info.symbol, "Entry")
           \/ HasWord(info.syntax, "Table")
      /\ info.is_table <=> InTables(info)
      /\ info.symbol = "IF-MIB::ifTable" => info.is_table
      /\ HasSegmentOne(info.symbol) => info.is_table
      /\ (info.symbol = "SNMPv2-MIB::sysDescr" /\ ~HasWord(info.syntax, "Table"))
           => ~info.is_table

\* a symbol ending in ".10" and a symbol holding "Entry" were classified
C7_Witness ==
  /\ tool = "mib2template"
  /\ \E info \in Classified : info.symbol = "IF-MIB::ifInOctets.10" /\ InTables(info)
  /\ \E info \in Classified : info.symbol = "IF-MIB::ifEntry" /\ InTables(info)

\* a document was rendered
Rendered == pc = "done" /\ Len(output) = 1

\* the template of the rendered document
Template == output[1].doc.templates[1]

(***************************************************************************)
(* C8. The rendered document holds exactly one template; its items are the *)
(* aggregated items, one for one and in accumulation order, with the same  *)
(* name, OID and key; its discovery rules are the aggregated rules, one    *)
(* for one and in order, each with all of its prototypes beneath it in     *)
(* accumulation order; nothing else is rendered.                           *)
(***************************************************************************)
C8_RenderedMatchesAggregator ==
  Rendered =>
    /\ Len(output[1].doc.templates) = 1
    /\ Len(Template.items) = Len(items)
    /\ \A k \in DOMAIN items :
         /\ Template.items[k].name = items[k][1]
         /\ Template.items[k].snmp_oid = items[k][4]
         /\ Template.items[k].key = items[k][3]
    /\ Len(Template.discovery_rules) = Len(discovery_rules)
    /\ \A r \in DOMAIN discovery_rules :
         LET rule == discovery_rules[r]
             shown == Template.discovery_rules[r]
         IN  /\ shown.key = Replace(rule.name, "::", ".")
             /\ Len(shown.item_prototypes) = Len(rule.protos)
             /\ \A k \in DOMAIN rule.protos :
                  /\ shown.item_prototypes[k].name = rule.protos[k][1] \o "." \o SNMPINDEX
                  /\ shown.item_prototypes[k].snmp_oid = rule.protos[k][4] \o "." \o SNMPINDEX

\* a walk was rendered with an item and a rule of two prototypes
C8_Witness ==
  /\ Rendered /\ tool = "mib2zabbix-py"
  /\ Len(items) >= 1
  /\ \E r \in DOMAIN discovery_rules :
       /\ Len(discovery_rules[r].protos) >= 2
       /\ Len(Template.discovery_rules[r].item_prototypes) >= 2

(***************************************************************************)
(* C9. Every rendered item prototype has its name, its OID and its key     *)
(* equal to the aggregated prototype's own name, OID and key, each         *)
(* suffixed with the literal token {#SNMPINDEX}.  Violated: both tools     *)
(* build the rendered key from the prototype's OID, not from its key.      *)
(***************************************************************************)
C9_PrototypeFieldsSuffixed ==
  Rendered =>
    \A r \in DOMAIN discovery_rules :
      \A k \in DOMAIN discovery_rules[r].protos :
        LET proto == discovery_rules[r].protos[k]
            shown == Template.discovery_rules[r].item_prototypes[k]
        IN  /\ shown.name = proto[1] \o "." \o SNMPINDEX
            /\ shown.snmp_oid = proto[4] \o "." \o SNMPINDEX
            /\ shown.key \in {proto[3] \o "[" \o SNMPINDEX \o "]",
                              proto[3] \o "." \o SNMPINDEX,
                              proto[3] \o SNMPINDEX}

\* what stands between "discovery[" and "]"
Payload(snmp_oid) == SubSeq(snmp_oid, Len("discovery[") + 1, Len(snmp_oid) - 1)

RECURSIVE TriplesLen(_)
\* the length of all the triples of the prototypes together
TriplesLen(protos) ==
  IF Len(protos) = 0 THEN 0 ELSE Len(OidAppend(Head(protos))) + TriplesLen(Tail(protos))

(***************************************************************************)
(* C10. For every discovery rule the payload rendered inside discovery[..] *)
(* is never longer than 500 characters.                                    *)
(***************************************************************************)
C10_DiscoveryPayloadBudget ==
  (Rendered /\ tool = "mib2zabbix-py") =>
    \A r \in DOMAIN Template.discovery_rules :
      LET shown == Template.discovery_rules[r]
      IN  shown.snmp_oid # None =>
            /\ StartsWith(shown.snmp_oid, "discovery[")
            /\ EndsWith(shown.snmp_oid, "]")
            /\ Len(Payload(shown.snmp_oid)) <= 500

\* a rule whose triples together exceed the budget was rendered with a payload
C10_Witness ==
  /\ Rendered /\ tool = "mib2zabbix-py"
  /\ \E r \in DOMAIN discovery_rules :
       /\ TriplesLen(discovery_rules[r].protos) > 501
       /\ Template.discovery_rules[r].snmp_oid # None
       /\ Len(Payload(Template.discovery_rules[r].snmp_oid)) > 0

\* the messages of the fatal failures
FatalMessages ==
  {"Error ejecutando snmpwalk", "Error: Comando 'snmpwalk' no encontrado",
   "Error cargando MIB", "Error: snmptranslate no encontrado"}

\* a fatal failure was reported
FatalReported(out) == \E k \in DOMAIN out : out[k] \in FatalMessages

FailsLine ==
  /\ tool = "mib2zabbix-py" /\ Len(oids') = Len(oids) + 1
  /\ calls'[Len(calls')] = "fail"

\* the step reads a symbol of the module whose resolution fails
FailsSymbol ==
  /\ tool = "mib2template" /\ Len(symbols') = Len(symbols) + 1
  /\ calls'[Len(calls')] = "fail"

Skippable(line) ==
  \/ line = ""
  \/ ~HasWord(line, "=")
  \/ HasWord(Upper(line), "NO MORE VARIABLES LEFT")

(***************************************************************************)
(* C13. Reading a walk line that is empty, has no "=" separator, or is the *)
(* "no more variables" sentinel leaves the items, the discovery rules, the *)
(* dedup key and the template name as they were, makes no resolver call,   *)
(* and the walk goes on.                                                   *)
(***************************************************************************)
C13_SkippedLineChangesNothing ==
  [][(tool = "mib2zabbix-py" /\ Len(oids') = Len(oids) + 1
        /\ Skippable(oids'[Len(oids')]))
       => /\ items' = items
          /\ discovery_rules' = discovery_rules
          /\ last_part_10' = last_part_10
          /\ template_name' = template_name
          /\ calls'[Len(calls')] = "none"
          /\ pc' = pc]_vars

\* the sentinel and a line without "=" were read after a column was kept
C13_Witness ==
  /\ tool = "mib2zabbix-py" /\ Len(oids) = 3
  /\ kept[1] /\ last_part_10 = "ifDescr"
  /\ HasWord(Upper(oids[2]), "NO MORE VARIABLES LEFT")
  /\ ~HasWord(oids[3], "=")
  /\ ProtoCount(discovery_rules) = 1 /\ items = <<>>

\* the text without the double quotes around it
Unquote(v) ==
  IF Len(v) >= 2 /\ Char(v, 1) = "\"" /\ Char(v, Len(v)) = "\""
    THEN SubSeq(v, 2, Len(v) - 1)
    ELSE v

(***************************************************************************)
(* C14. In walk mode, whenever the walk holds a line for the OID           *)
(* .1.3.6.1.2.1.1.5.0 with value V, the display name of the generated      *)
(* template is V followed by " SNMP": for the line                         *)
(*   .1.3.6.1.2.1.1.5.0 = STRING: "router1"                                *)
(* the name is router1 SNMP.  Violated: the value is taken with its        *)
(* quotes, and the name is "router1" SNMP.                                 *)
(***************************************************************************)
C14_TemplateNamedAfterSysName ==
  (Rendered /\ tool = "mib2zabbix-py") =>
    \A k \in DOMAIN oids :
      (Line(k).kind # "skipped" /\ Line(k).oid = ".1.3.6.1.2.1.1.5.0")
        => Template.name = Unquote(Line(k).value) \o " SNMP"

(***************************************************************************)
(* C15. In both tools every rendered item carries a history field and a    *)
(* trends field, each the configured number of days followed by "d",       *)
(* together with an enabled/disabled status and the polling interval.      *)
(* Violated: mib2zabbix-py renders the trends without the "d".             *)
(***************************************************************************)
C15_ItemRetentionInDays ==
  Rendered =>
    \A k \in DOMAIN Template.items :
      /\ Template.items[k].history = args.history \o "d"
      /\ Template.items[k].trends = args.trends \o "d"
      /\ Template.items[k].status = IF args.enable_items THEN "ENABLED" ELSE "DISABLED"
      /\ Template.items[k].delay = args.check_delay

\* the name given on the command line, none when it was not given
NameOverride == IF tool = "mib2zabbix-py" THEN args.name ELSE args.template_name

(***************************************************************************)
(* C16. In both tools and in every mode, when a template name is given on  *)
(* the command line the display name of the rendered template is that name *)
(* followed by " SNMP", and the template's single group has the name given *)
(* for the group.  Violated: walk mode never reads the name option.        *)
(***************************************************************************)
C16_NameAndGroupOverrides ==
  Rendered =>
    /\ (NameOverride # None /\ NameOverride # "")
         => (Template.name = NameOverride \o " SNMP"
             /\ Template.template = NameOverride \o " SNMP")
    /\ Template.groups = << [name |-> args.group] >>

RECURSIVE TriplesOf(_, _, _)
\* the triples of the prototypes numbered in S, up to the k-th, one after the other
TriplesOf(protos, S, k) ==
  IF k = 0 THEN ""
  ELSE TriplesOf(protos, S, k - 1) \o (IF k \in S THEN OidAppend(protos[k]) ELSE "")

\* the element rendered for the triples numbered in S, none when there are none
DiscoveryOf(protos, S) ==
  LET t == TriplesOf(protos, S, Len(protos))
  IN  IF t = "" THEN None ELSE "discovery[" \o SubSeq(t, 1, Len(t) - 1) \o "]"

\* the longest prefix of the prototypes whose triples fit 500 characters together
LongestPrefix(protos) ==
  {k \in DOMAIN protos : Len(TriplesOf(protos, DOMAIN protos, k)) <= 500}

\* S takes each triple exactly when it fits after the triples S took before it
Greedy(protos, S) ==
  \A k \in DOMAIN protos :
    k \in S <=> Len(TriplesOf(protos, S, k - 1)) + Len(OidAppend(protos[k])) <= 500

(***************************************************************************)
(* C17 as stated: the payload of a rule lists the triples in accumulation  *)
(* order and is the longest prefix of them that fits 500 characters; once  *)
(* a triple is omitted no later one is included.  Violated: every triple   *)
(* is tested on its own, so a short triple after an omitted one is taken.  *)
(***************************************************************************)
C17_PayloadIsLongestPrefix ==
  (Rendered /\ tool = "mib2zabbix-py") =>
    \A r \in DOMAIN discovery_rules :
      Template.discovery_rules[r].snmp_oid
        = DiscoveryOf(discovery_rules[r].protos, LongestPrefix(discovery_rules[r].protos))

(***************************************************************************)
(* C17 amended: the payload of a rule lists triples in accumulation order; *)
(* going through the prototypes in that order, a triple is included        *)
(* exactly when it still fits the 500 characters together with the triples *)
(* included before it, so a triple may be included after an omitted one;   *)
(* when no triple is included the rule has no discovery element.           *)
(***************************************************************************)
C17_PayloadIsGreedy ==
  (Rendered /\ tool = "mib2zabbix-py") =>
    \A r \in DOMAIN discovery_rules :
      LET protos == discovery_rules[r].protos
      IN  \E S \in SUBSET (DOMAIN protos) :
            /\ Greedy(protos, S)
            /\ Template.discovery_rules[r].snmp_oid = DiscoveryOf(protos, S)

\* a rule of three prototypes is rendered with the first and the third triple
C17_Witness ==
  /\ Rendered /\ tool = "mib2zabbix-py"
  /\ \E r \in DOMAIN discovery_rules :
       LET protos == discovery_rules[r].protos
       IN  /\ Len(protos) = 3
           /\ Greedy(protos, {1, 3})
           /\ Template.discovery_rules[r].snmp_oid = DiscoveryOf(protos, {1, 3})

\* the records of the symbols read so far that were resolved, in input order
ResolvedInfos ==
  LET idx == SelectSeq([k \in DOMAIN symbols |-> k], LAMBDA k : calls[k] = "ok")
  IN  [i \in DOMAIN idx |-> process_symbol(symbols[idx[i]], "ok")[1]]

\* the full names of a list of records, and of a list of items or prototypes
InfoNames(infos) == [k \in DOMAIN infos |-> infos[k].full_name]

ObjectNames(objects) == [k \in DOMAIN objects |-> objects[k][2]]

\* the resolved table members that go to the table called name
MembersOf(name) ==
  SelectSeq(ResolvedInfos, LAMBDA i : i.is_table /\ ScanTableName(i.symbol) = name)

\* the place in the input of the first member of the table called name
FirstSeen(name) ==
  CHOOSE k \in DOMAIN ResolvedInfos :
    /\ ResolvedInfos[k].is_table /\ ScanTableName(ResolvedInfos[k].symbol) = name
    /\ \A j \in 1..(k - 1) :
         ~(ResolvedInfos[j].is_table /\ ScanTableName(ResolvedInfos[j].symbol) = name)

\* the scalars are the items, and the tables seen are the rules, in first-seen order
ScalarsAndRulesInOrder ==
  /\ ObjectNames(items)
       = InfoNames(SelectSeq(ResolvedInfos, LAMBDA i : ~i.is_table))
  /\ RuleNames(discovery_rules)
       = {ScanTableName(ResolvedInfos[k].symbol) :
            k \in {j \in DOMAIN ResolvedInfos : ResolvedInfos[j].is_table}}
  /\ \A r, q \in DOMAIN discovery_rules :
       r < q => FirstSeen(discovery_rules[r].name) < FirstSeen(discovery_rules[q].name)
  /\ \A k \in DOMAIN items : \A r \in DOMAIN discovery_rules :
       \A j \in DOMAIN discovery_rules[r].protos :
         items[k][2] # discovery_rules[r].protos[j][2]

FirstAt(s, c) ==
  CHOOSE i \in 1..Len(s) : Char(s, i) = c /\ \A j \in 1..(i - 1) : Char(s, j) # c

\* what follows the first "=" of the line
AfterEquals(line) == SubSeq(line, FirstAt(line, "=") + 1, Len(line))

\* the step reads a line that gives an item or a prototype
ReadsObject == ReadsLine /\ NewObject # <<>>

(***************************************************************************)
(* C19 as stated: a walk line OID = VALUE that carries no type gives the   *)
(* object the string type (value type CHAR) whatever the text of VALUE is; *)
(* for a line OID = TYPE: VALUE the type used is exactly TYPE.  Violated:  *)
(* when VALUE holds a colon, what stands before it is taken for the type.  *)
(***************************************************************************)
C19_UntypedLineIsString ==
  [][ReadsObject =>
       LET line == oids'[Len(oids')]
       IN  IF line \in UntypedLines
             THEN NewLine.snmp_type = "STRING" /\ NewObject[1][5] = "CHAR"
             ELSE HasWord(line, "= " \o NewLine.snmp_type \o ": ")]_vars

(***************************************************************************)
(* C19 amended: when the text after the first "=" of a walk line holds no  *)
(* colon, the object is given the type STRING (value type CHAR) whatever   *)
(* that text is; when it holds a colon, the type label is the text between *)
(* the "=" and the first colon, without the spaces around it, also when    *)
(* the line was meant as OID = VALUE; the value type is the one the table  *)
(* gives for the label in upper case, TEXT when it gives none.             *)
(***************************************************************************)
C19_TypeIsTextBeforeColon ==
  [][ReadsObject =>
       LET rest == AfterEquals(oids'[Len(oids')])
           label == IF HasWord(rest, ":")
                      THEN Strip(SubSeq(rest, 1, FirstAt(rest, ":") - 1))
                      ELSE "STRING"
       IN  /\ NewLine.snmp_type = label
           /\ ~HasWord(rest, ":") => NewObject[1][5] = "CHAR"
           /\ NewObject[1][5] = IF Upper(label) \in DOMAIN DATATYPES
                                  THEN DATATYPES[Upper(label)]
                                  ELSE "TEXT"]_vars

\* a line without type and without colon, and one without type and with a
\* colon in its value, have both given an item
C19_Witness ==
  /\ tool = "mib2zabbix-py" /\ Len(oids) = 2
  /\ oids[1] = ".1.3.6.1.2.1.1.4.0 = \"\"" /\ oids[2] = ".1.3.6.1.2.1.1.4.0 = noc: floor 2"
  /\ Len(items) = 2
  /\ items[1][5] = "CHAR" /\ items[2][5] = "TEXT"

=============================================================================
